---- MODULE Spec2Model ----
(***************************************************************************)
(* State-machine model of scripts/pipeline_manager.py: the local gate      *)
(* evaluator, the policy-gate client, the decision executor and the run    *)
(* summary of one invocation of main(), and of a second invocation of the  *)
(* same command line.                                                      *)
(*                                                                         *)
(* Units.  Ratios (success_rate, drift, reproducibility, margin_rate) are  *)
(* fixed-point whole percents (0.90 is 90); USDC amounts are tenths of a   *)
(* USDC (0.5 is 5); times and ages are whole hours.  A Python None is the  *)
(* empty set and a present value v is {v}.                                 *)
(***************************************************************************)
EXTENDS Integers, Sequences, FiniteSets, TLC

\* ------------------------------------------------------------------ bounds
MaxFiles == 2          \* user files initially in the inbox
MaxDelay == 1          \* hours between two invocations
MaxRuns == 2           \* invocations of the same command line

\* ------------------------------------------------------- argparse defaults
SlaHours == 24
MinSuccess == 90
MaxDrift == 10
MinRepro == 90
DefaultRevenueUsdc == 0
DefaultTokenCostUsdc == 0
MinMarginRate == 0

\* --------------------------------------------------------------- exit codes
ExitConfirmCode == 2
ExitNoUrlCode == 2
ExitGateCodeSame == ExitNoUrlCode
ExitGateCode == 3

None == {}
Some(v) == {v}
IsNone(x) == x = {}
Val(x) == CHOOSE v \in x : TRUE

\* ------------------------------------------------------------- file names
\* A file name is the sequence of its tokens; the last token is the suffix.
PassName == <<"PRJ", "-", "PIPELINE-PASS_v1", ".md">>
FailMissingName == <<"PRJ", "-", "PIPELINE-FAIL-MISSING_v1", ".md">>
FailKpiName == <<"PRJ", "-", "PIPELINE-FAIL-KPI_v1", ".md">>
IdeaName == <<"IDEA", "-", "a", ".md">>
LogName == <<"LOG", "-", "b", ".md">>
NotesName == <<"notes", ".md">>

UserNames == {IdeaName, LogName, NotesName}

\* every name of the model, in the order sorted() gives them (code points:
\* upper case before lower case)
NameOrder == <<IdeaName, LogName, FailKpiName, FailMissingName, PassName, NotesName>>

Stem(name) == SubSeq(name, 1, Len(name) - 1)

\* re.match('^(PRJ|IDEA|LOG)-', name)
PrefixMatch(name) ==
    /\ Len(name) >= 2
    /\ name[1] \in {"PRJ", "IDEA", "LOG"}
    /\ name[2] = "-"

RECURSIVE SortedFrom(_, _)
SortedFrom(names, i) ==
    IF i > Len(NameOrder) THEN <<>>
    ELSE IF NameOrder[i] \in names THEN <<NameOrder[i]>> \o SortedFrom(names, i + 1)
    ELSE SortedFrom(names, i + 1)

\* sorted(inbox.glob('*.md'))
SortedGlob(ib) == SortedFrom(DOMAIN ib, 1)

\* ------------------------------------------------------------ proposal files
\* A proposal file is its modification time and what parse_file reads from
\* its text.
File(ap, ai, ev, el, ln, sr, dr, rp, rv, tc, mt) ==
    [has_approval |-> ap, has_approval_integrity |-> ai, has_evidence |-> ev,
     has_eval |-> el, has_learn |-> ln, success_rate |-> sr, drift |-> dr,
     reproducibility |-> rp, revenue_usdc |-> rv, token_cost_usdc |-> tc,
     mtime |-> mt]

SamplePass(t) == File(TRUE, TRUE, TRUE, TRUE, TRUE, Some(95), Some(3), Some(100), Some(30), Some(5), t)
SampleFailMissing(t) == File(TRUE, FALSE, TRUE, FALSE, FALSE, Some(92), Some(4), Some(100), None, None, t)
SampleFailKpi(t) == File(TRUE, FALSE, TRUE, TRUE, TRUE, Some(70), Some(25), Some(60), Some(20), Some(18), t)

Samples(t) ==
    (PassName :> SamplePass(t)) @@ (FailMissingName :> SampleFailMissing(t))
        @@ (FailKpiName :> SampleFailKpi(t))

\* seed_samples: a sample is written only where no file of that name exists
SeedSamples(ib, t) == ib @@ Samples(t)

\* ------------------------------------------------------------ gate evaluator
Append1(seq, cond, x) == IF cond THEN Append(seq, x) ELSE seq

SlaReason == "sla_exceeded>24.0h"

\* the reasons of the ten gates evaluated before the economics
GateReasons(name, f, age_hours) ==
    LET r1 == Append1(<<>>, age_hours > SlaHours, SlaReason)
        r2 == Append1(r1, ~PrefixMatch(name), "prefix_rule_fail")
        r3 == Append1(r2, ~f.has_approval, "missing_approval_id")
        r4 == Append1(r3, ~f.has_approval_integrity, "approval_integrity_fail")
        r5 == Append1(r4, ~f.has_evidence, "missing_evidence")
        r6 == Append1(r5, ~f.has_eval, "missing_eval")
        r7 == Append1(r6, ~f.has_learn, "missing_learn")
        r8 == Append1(r7, IsNone(f.success_rate) \/ Val(f.success_rate) < MinSuccess,
                      "kpi_success_rate_fail")
        r9 == Append1(r8, IsNone(f.drift) \/ Val(f.drift) > MaxDrift, "kpi_drift_fail")
    IN  Append1(r9, IsNone(f.reproducibility) \/ Val(f.reproducibility) < MinRepro,
                "kpi_reproducibility_fail")

Revenue(f) == IF IsNone(f.revenue_usdc) THEN DefaultRevenueUsdc ELSE Val(f.revenue_usdc)
TokenCost(f) == IF IsNone(f.token_cost_usdc) THEN DefaultTokenCostUsdc ELSE Val(f.token_cost_usdc)

MarginRate(revenue, token_cost) ==
    IF revenue < 0 \/ token_cost < 0 THEN None
    ELSE IF revenue = 0 THEN None
    ELSE Some(((revenue - token_cost) * 100) \div revenue)

Decision(name, action, reasons, warnings, kpi, age_hours) ==
    [file |-> name, action |-> action, reasons |-> reasons, warnings |-> warnings,
     kpi |-> kpi, age_hours |-> age_hours]

FinalKpi(f) ==
    [success_rate |-> f.success_rate, drift |-> f.drift,
     reproducibility |-> f.reproducibility, revenue_usdc |-> Revenue(f),
     token_cost_usdc |-> TokenCost(f),
     margin_rate |-> MarginRate(Revenue(f), TokenCost(f))]

\* the evaluator with the action settled before the economics reason is added
EvaluateFileEarlyAction(name, f, age_hours) ==
    LET gates == GateReasons(name, f, age_hours)
        margin == MarginRate(Revenue(f), TokenCost(f))
    IN  Decision(name,
                 IF gates # <<>> THEN "demote" ELSE "promote",
                 Append1(gates, Revenue(f) < 0 \/ TokenCost(f) < 0, "econ_invalid_negative_values"),
                 Append1(<<>>, ~IsNone(margin) /\ Val(margin) < MinMarginRate, "kpi_margin_rate_fail"),
                 FinalKpi(f), age_hours)

\* one iteration of the evaluation loop of main(): the Decision of one file
EvaluateFile(name, f, age_hours) ==
    LET gates == GateReasons(name, f, age_hours)
        revenue == Revenue(f)
        token_cost == TokenCost(f)
        reasons == Append1(gates, revenue < 0 \/ token_cost < 0, "econ_invalid_negative_values")
        margin == MarginRate(revenue, token_cost)
        warnings == Append1(<<>>, ~IsNone(margin) /\ Val(margin) < MinMarginRate,
                            "kpi_margin_rate_fail")
        action == IF reasons # <<>> THEN "demote" ELSE "promote"
    IN  Decision(name, action, reasons, warnings, FinalKpi(f), age_hours)

\* ---------------------------------------------------------- policy-gate client
\* What the wire gives back to one POST: the connection is refused, the
\* response does not arrive within the timeout, or a response with a status
\* and a body arrives.  A body is empty, not JSON, a JSON array, or a JSON
\* object with its "allow" and "action" members.
AllowVals == {"absent", "true", "false", "other"}
ActionVals == {"absent", "promote", "demote", "hold", "nonstring"}
Body(t, allow, action) == [t |-> t, allow |-> allow, action |-> action]
EmptyObject == Body("object", "absent", "absent")
Bodies ==
    {Body("empty", "absent", "absent"), Body("garbage", "absent", "absent"),
     Body("array", "absent", "absent")}
        \cup {Body("object", a, b) : a \in AllowVals, b \in ActionVals}
Wire(kind, status, body) == [kind |-> kind, status |-> status, body |-> body]
Wires ==
    {Wire("refused", 0, EmptyObject), Wire("timeout", 0, EmptyObject),
     Wire("http", 500, EmptyObject), Wire("http", 404, EmptyObject)}
        \cup {Wire("http", 200, b) : b \in Bodies}

Raised(exc, tag, status) ==
    [ok |-> FALSE, exc |-> exc, tag |-> tag, status |-> status, result |-> EmptyObject]
Returned(obj) ==
    [ok |-> TRUE, exc |-> "", tag |-> "", status |-> 0, result |-> obj]

\* urllib.request.urlopen with the default opener: a refused connection is a
\* URLError, a status outside 200..299 is an HTTPError (a subclass of
\* URLError), a response that does not arrive in time is a TimeoutError
UrlOpen(w) ==
    IF w.kind = "refused" THEN Raised("URLError", "", 0)
    ELSE IF w.kind = "timeout" THEN Raised("TimeoutError", "", 0)
    ELSE IF w.status < 200 \/ w.status >= 300 THEN Raised("URLError", "", w.status)
    ELSE Returned(w.body)

\* json.loads(raw) if raw.strip() else {}
JsonLoads(body) ==
    IF body.t = "empty" THEN Returned(EmptyObject)
    ELSE IF body.t = "garbage" THEN Raised("JSONDecodeError", "", 0)
    ELSE Returned(body)

PostPolicyGate(w) ==
    LET resp == UrlOpen(w)
    IN  IF ~resp.ok
        THEN IF resp.exc = "URLError"
             THEN Raised("RuntimeError", "policy_gate_unreachable", 0)
             ELSE resp
        ELSE IF w.status < 200 \/ w.status >= 300
        THEN Raised("RuntimeError", "policy_gate_http", w.status)
        ELSE LET parsed == JsonLoads(resp.result)
             IN  IF ~parsed.ok THEN Raised("RuntimeError", "policy_gate_invalid_json", 0)
                 ELSE IF parsed.result.t # "object"
                 THEN Raised("RuntimeError", "policy_gate_invalid_json", 0)
                 ELSE parsed

Resolved(action) == [ok |-> TRUE, exc |-> "", tag |-> "", status |-> 0, action |-> action]
Unresolved(exc, tag, status) ==
    [ok |-> FALSE, exc |-> exc, tag |-> tag, status |-> status, action |-> ""]

\* resolve_gate_action with an action member taking precedence over allow
ResolveActionFirst(local_action, gate_result) ==
    IF gate_result.action \in {"promote", "demote"} THEN Resolved(gate_result.action)
    ELSE IF gate_result.allow = "false" THEN Resolved("demote")
    ELSE IF gate_result.allow = "true" THEN Resolved(local_action)
    ELSE Unresolved("RuntimeError", "policy_gate_missing_allow_or_action", 0)

\* resolve_gate_action passing the local action through when nothing is said
ResolveLenient(local_action, gate_result) ==
    IF gate_result.allow = "false" THEN Resolved("demote")
    ELSE IF gate_result.action \in {"promote", "demote"} THEN Resolved(gate_result.action)
    ELSE Resolved(local_action)

ResolveGateAction(local_action, gate_result) ==
    IF gate_result.allow = "false" THEN Resolved("demote")
    ELSE IF gate_result.action \in {"promote", "demote"} THEN Resolved(gate_result.action)
    ELSE IF gate_result.allow = "true" THEN Resolved(local_action)
    ELSE Unresolved("RuntimeError", "policy_gate_missing_allow_or_action", 0)

\* the try body of the gate loop: the POST, then the resolution
Consult(local_action, w) ==
    LET out == PostPolicyGate(w)
    IN  IF out.ok THEN ResolveGateAction(local_action, out.result)
        ELSE Unresolved(out.exc, out.tag, out.status)

\* the override of a decision by the resolved action
Overridden(d, gated_action) ==
    IF gated_action # d.action
    THEN [d EXCEPT !.warnings = Append(@, "policy_gate_action_override"),
                   !.action = gated_action]
    ELSE d

\* ------------------------------------------------------------ configuration
RECURSIVE LStrip(_)
LStrip(s) == IF s # <<>> /\ Head(s) = " " THEN LStrip(Tail(s)) ELSE s
RECURSIVE RStrip(_)
RStrip(s) == IF s # <<>> /\ s[Len(s)] = " " THEN RStrip(SubSeq(s, 1, Len(s) - 1)) ELSE s
\* str.strip()
Strip(s) == RStrip(LStrip(s))

Urls == {<<>>, <<" ", " ">>, <<" ", "g", " ">>}

Args ==
    [real_run : BOOLEAN, confirm_real_run : BOOLEAN, seed_samples : BOOLEAN,
     policy_gate_url : Urls]

DryRunOf(a) == ~(a.real_run /\ a.confirm_real_run)

\* the configuration check with the URL tested as given
ConfigErrorUnstripped(a) ==
    IF a.real_run /\ ~a.confirm_real_run THEN Some("real_run_requires_confirm_flag")
    ELSE IF ~DryRunOf(a) /\ a.policy_gate_url = <<>>
    THEN Some("policy_gate_required_for_real_run")
    ELSE None

\* the error main() exits with before it touches anything, if any
ConfigError(a) ==
    IF a.real_run /\ ~a.confirm_real_run THEN Some("real_run_requires_confirm_flag")
    ELSE IF ~DryRunOf(a) /\ Strip(a.policy_gate_url) = <<>>
    THEN Some("policy_gate_required_for_real_run")
    ELSE None

ConfigExitCode(error) ==
    IF error = "real_run_requires_confirm_flag" THEN ExitConfirmCode ELSE ExitNoUrlCode

\* ------------------------------------------------------- decision executor
TargetByReasons(d) == IF d.reasons = <<>> THEN "applied" ELSE "demoted"

Target(d) == IF d.action = "promote" THEN "applied" ELSE "demoted"

Without(fn, key) == [k \in DOMAIN fn \ {key} |-> fn[k]]

Dirs(ib, ap, dm, mv) == [inbox |-> ib, applied |-> ap, demoted |-> dm, moves |-> mv]

Moved(fs, d) ==
    LET name == d.file
        dest == Target(d)
    IN  Dirs(Without(fs.inbox, name),
             IF dest = "applied" THEN (name :> fs.inbox[name]) @@ fs.applied ELSE fs.applied,
             IF dest = "demoted" THEN (name :> fs.inbox[name]) @@ fs.demoted ELSE fs.demoted,
             fs.moves \cup {<<name, dest>>})

\* the move made whether or not the run is a dry run
MoveFileAlways(fs, d, dry) == Moved(fs, d)

\* shutil.move(d.file, target) under "if not dry_run"
MoveFile(fs, d, dry) == IF ~dry THEN Moved(fs, d) ELSE fs

NeedsIncidentIfDemoted(d) == d.action = "demote"

\* "if d.reasons"
NeedsIncident(d) == d.reasons # <<>>

Incident(d, dry, stamp) ==
    [stamp |-> stamp, stem |-> Stem(d.file), file |-> d.file, action |-> d.action,
     reasons |-> d.reasons, kpi |-> d.kpi, age_hours |-> d.age_hours, dry_run |-> dry]

\* the incident written whether or not the run is a dry run
WriteIncidentAlways(incs, d, dry, stamp) == incs \cup {Incident(d, dry, stamp)}

WriteIncident(incs, d, dry, stamp) ==
    IF ~dry THEN incs \cup {Incident(d, dry, stamp)} ELSE incs

\* ------------------------------------------------------------- run summary
IsPromote(d) == d.action = "promote"
IsDemote(d) == d.action = "demote"
HasWarning(d) == Len(d.warnings) > 0
InSeq(x, seq) == \E k \in 1..Len(seq) : seq[k] = x
HasMarginWarning(d) == InSeq("kpi_margin_rate_fail", d.warnings)
HasMargin(d) == ~IsNone(d.kpi.margin_rate)

RECURSIVE SumBy(_, _, _)
SumBy(decs, k, what) ==
    IF k > Len(decs) THEN 0
    ELSE (CASE what = "revenue" -> decs[k].kpi.revenue_usdc
            [] what = "token_cost" -> decs[k].kpi.token_cost_usdc
            [] OTHER -> Val(decs[k].kpi.margin_rate))
         + SumBy(decs, k + 1, what)

Names(decs) == [k \in 1..Len(decs) |-> decs[k].file]

Summary(decs, dry, time) ==
    LET margins == SelectSeq(decs, HasMargin)
        total_revenue == SumBy(decs, 1, "revenue")
        total_token_cost == SumBy(decs, 1, "token_cost")
    IN  [time_utc |-> time,
         dry_run |-> dry,
         counts |-> [total |-> Len(decs),
                     promote |-> Len(SelectSeq(decs, IsPromote)),
                     demote |-> Len(SelectSeq(decs, IsDemote)),
                     warn |-> Len(SelectSeq(decs, HasWarning))],
         economics |-> [total_revenue_usdc |-> total_revenue,
                        total_token_cost_usdc |-> total_token_cost,
                        total_net_margin_usdc |-> total_revenue - total_token_cost,
                        avg_margin_rate |->
                            IF margins # <<>>
                            THEN Some(SumBy(margins, 1, "margin") \div Len(margins))
                            ELSE None,
                        min_margin_rate_advisory |-> MinMarginRate],
         margin_warnings |-> [count |-> Len(SelectSeq(decs, HasMarginWarning)),
                              files |-> Names(SelectSeq(decs, HasMarginWarning))],
         decisions |-> decs]

\* ------------------------------------------------------------------- state
VARIABLES
    pc,            \* where main() is: start, prepare, evaluate, gate, apply, summary, done, exit
    args,          \* the parsed command line
    dry_run,
    clock,         \* datetime.now(), in hours
    run_no,        \* which invocation of the command line this is
    inbox,         \* the inbox directory: file name -> file
    inbox0,        \* the inbox as this invocation found it
    applied,       \* the applied directory
    demoted,       \* the demoted directory
    moves,         \* the moves of this invocation: <<file name, destination>>
    mkdirs,        \* whether this invocation has created its directories
    listing,       \* sorted(inbox.glob('*.md'))
    i,             \* the position of the running loop
    decisions,
    gate_sent,     \* the file names posted to the policy gate, in order
    last_gate,     \* the last exchange with the policy gate and what it resolved to
    incidents,     \* the incidents directory
    printed,       \* the error object printed on exit, if any
    exit_code,
    summary,       \* the run summary written by this invocation, if any
    prev_summary   \* the run summary written by the invocation before, if any

vars ==
    <<pc, args, dry_run, clock, run_no, inbox, inbox0, applied, demoted, moves, mkdirs,
      listing, i, decisions, gate_sent, last_gate, incidents, printed, exit_code,
      summary, prev_summary>>

Empty == [k \in {} |-> 0]

NoGate ==
    [valid |-> FALSE, file |-> <<>>, requested |-> "", wire |-> Wire("none", 0, EmptyObject),
     out |-> Raised("", "", 0), resolved |-> Unresolved("", "", 0)]

\* ------------------------------------------------------------- input files
CleanFile(mt) ==
    File(TRUE, TRUE, TRUE, TRUE, TRUE, Some(95), Some(3), Some(100), Some(100), Some(80), mt)

\* four proposals: clean and new; clean and exactly as old as the SLA allows;
\* without evidence and costing more than it earns; with a negative revenue
UserFiles ==
    {CleanFile(0), CleanFile(0 - SlaHours),
     File(TRUE, TRUE, FALSE, TRUE, TRUE, Some(95), Some(3), Some(100), Some(10), Some(20), 0),
     File(TRUE, TRUE, TRUE, TRUE, TRUE, Some(95), Some(3), Some(100), Some(0 - 10), Some(5), 0)}

Inboxes(files, n) ==
    UNION {[S -> files] : S \in {T \in SUBSET UserNames : Cardinality(T) <= n}}

\* every combination of the markers, KPI values, economics values and ages
\* (has_approval_integrity implies has_approval, as in parse_file)
Rates == {None, Some(50), Some(95)}
Drifts == {None, Some(3), Some(25)}
Amounts == {None, Some(0 - 10), Some(0), Some(10)}
AllFiles ==
    {File(ap, ai, ev, el, ln, sr, dr, rp, rv, tc, mt) :
        ap \in BOOLEAN, ai \in BOOLEAN, ev \in BOOLEAN, el \in BOOLEAN, ln \in BOOLEAN,
        sr \in Rates, dr \in Drifts, rp \in Rates, rv \in Amounts, tc \in {None, Some(0 - 10), Some(20)},
        mt \in {0, 0 - SlaHours, 0 - SlaHours - 1}}

InitWith(argset, inboxes) ==
    /\ pc = "start"
    /\ args \in argset
    /\ dry_run = TRUE
    /\ clock = 0
    /\ run_no = 1
    /\ inbox \in inboxes
    /\ inbox0 = inbox
    /\ applied = Empty
    /\ demoted = Empty
    /\ moves = {}
    /\ mkdirs = FALSE
    /\ listing = <<>>
    /\ i = 1
    /\ decisions = <<>>
    /\ gate_sent = <<>>
    /\ last_gate = NoGate
    /\ incidents = {}
    /\ printed = None
    /\ exit_code = None
    /\ summary = None
    /\ prev_summary = None

Init == InitWith(Args, Inboxes(UserFiles, MaxFiles))

\* ----------------------------------------------------------------- actions
PhaseAfterScan(dry, n) == IF n = 0 THEN "summary" ELSE IF dry THEN "apply" ELSE "gate"

\* main(): dry_run and the two configuration errors
ParseArgs ==
    /\ pc = "start"
    /\ dry_run' = DryRunOf(args)
    /\ IF IsNone(ConfigError(args))
       THEN /\ pc' = "prepare"
            /\ UNCHANGED <<printed, exit_code>>
       ELSE /\ pc' = "exit"
            /\ printed' = Some([error |-> Val(ConfigError(args)), reason |-> ""])
            /\ exit_code' = Some(ConfigExitCode(Val(ConfigError(args))))
    /\ UNCHANGED <<args, clock, run_no, inbox, inbox0, applied, demoted, moves, mkdirs,
                   listing, i, decisions, gate_sent, last_gate, incidents, summary,
                   prev_summary>>

\* main(): seed_samples, the four mkdir calls, and the sorted listing
Prepare ==
    /\ pc = "prepare"
    /\ inbox' = IF args.seed_samples THEN SeedSamples(inbox, clock) ELSE inbox
    /\ mkdirs' = TRUE
    /\ listing' = SortedGlob(inbox')
    /\ decisions' = <<>>
    /\ i' = 1
    /\ pc' = IF listing' = <<>> THEN PhaseAfterScan(dry_run, 0) ELSE "evaluate"
    /\ UNCHANGED <<args, dry_run, clock, run_no, inbox0, applied, demoted, moves,
                   gate_sent, last_gate, incidents, printed, exit_code, summary,
                   prev_summary>>

\* main(): one iteration of the evaluation loop
Evaluate ==
    /\ pc = "evaluate"
    /\ i <= Len(listing)
    /\ LET name == listing[i]
           f == inbox[name]
       IN  decisions' = Append(decisions, EvaluateFile(name, f, clock - f.mtime))
    /\ IF i = Len(listing)
       THEN /\ i' = 1
            /\ pc' = PhaseAfterScan(dry_run, Len(listing))
       ELSE /\ i' = i + 1
            /\ pc' = pc
    /\ UNCHANGED <<args, dry_run, clock, run_no, inbox, inbox0, applied, demoted, moves,
                   mkdirs, listing, gate_sent, last_gate, incidents, printed, exit_code,
                   summary, prev_summary>>

\* main(): one iteration of the policy-gate loop of a real run
GateStep ==
    /\ pc = "gate"
    /\ i <= Len(decisions)
    /\ \E w \in Wires :
        LET d == decisions[i]
            res == Consult(d.action, w)
        IN  /\ gate_sent' = Append(gate_sent, d.file)
            /\ last_gate' = [valid |-> TRUE, file |-> d.file, requested |-> d.action,
                             wire |-> w, out |-> PostPolicyGate(w), resolved |-> res]
            /\ IF res.ok
               THEN /\ decisions' = [decisions EXCEPT ![i] = Overridden(d, res.action)]
                    /\ IF i = Len(decisions)
                       THEN i' = 1 /\ pc' = "apply"
                       ELSE i' = i + 1 /\ pc' = pc
                    /\ UNCHANGED <<printed, exit_code>>
               ELSE /\ printed' = Some([error |-> "policy_gate_blocked_transition",
                                        reason |-> IF res.tag # "" THEN res.tag ELSE res.exc])
                    /\ exit_code' = Some(ExitGateCode)
                    /\ pc' = "exit"
                    /\ UNCHANGED <<decisions, i>>
    /\ UNCHANGED <<args, dry_run, clock, run_no, inbox, inbox0, applied, demoted, moves,
                   mkdirs, listing, incidents, summary, prev_summary>>

\* main(): one iteration of the executor loop: the move and the incident
ApplyStep ==
    /\ pc = "apply"
    /\ i <= Len(decisions)
    /\ LET d == decisions[i]
           fs == MoveFile(Dirs(inbox, applied, demoted, moves), d, dry_run)
       IN  /\ inbox' = fs.inbox
           /\ applied' = fs.applied
           /\ demoted' = fs.demoted
           /\ moves' = fs.moves
           /\ incidents' = IF NeedsIncident(d)
                           THEN WriteIncident(incidents, d, dry_run, clock)
                           ELSE incidents
    /\ IF i = Len(decisions)
       THEN i' = 1 /\ pc' = "summary"
       ELSE i' = i + 1 /\ pc' = pc
    /\ UNCHANGED <<args, dry_run, clock, run_no, inbox0, mkdirs, listing, decisions,
                   gate_sent, last_gate, printed, exit_code, summary, prev_summary>>

\* main(): the run summary, written and printed
WriteSummary ==
    /\ pc = "summary"
    /\ summary' = Some(Summary(decisions, dry_run, clock))
    /\ exit_code' = Some(0)
    /\ pc' = "done"
    /\ UNCHANGED <<args, dry_run, clock, run_no, inbox, inbox0, applied, demoted, moves,
                   mkdirs, listing, i, decisions, gate_sent, last_gate, incidents,
                   printed, prev_summary>>

\* the same command line is run again, later
Rerun ==
    /\ pc \in {"done", "exit"}
    /\ run_no < MaxRuns
    /\ \E dt \in 1..MaxDelay : clock' = clock + dt
    /\ run_no' = run_no + 1
    /\ pc' = "start"
    /\ dry_run' = TRUE
    /\ inbox0' = inbox
    /\ moves' = {}
    /\ mkdirs' = FALSE
    /\ listing' = <<>>
    /\ i' = 1
    /\ decisions' = <<>>
    /\ gate_sent' = <<>>
    /\ last_gate' = NoGate
    /\ printed' = None
    /\ exit_code' = None
    /\ prev_summary' = summary
    /\ summary' = None
    /\ UNCHANGED <<args, inbox, applied, demoted, incidents>>

Next == ParseArgs \/ Prepare \/ Evaluate \/ GateStep \/ ApplyStep \/ WriteSummary

\* one invocation of main()
Spec == Init /\ [][Next]_vars

\* one invocation over one file of any content, up to its Decision
InitEval ==
    InitWith([real_run : {FALSE}, confirm_real_run : {FALSE}, seed_samples : {FALSE},
              policy_gate_url : {<<>>}],
             {(n :> f) : n \in {IdeaName, NotesName}, f \in AllFiles})
NextEval == ParseArgs \/ Prepare \/ Evaluate
SpecEval == InitEval /\ [][NextEval]_vars

\* the same dry-run command line run MaxRuns times
InitTwice == InitWith({a \in Args : DryRunOf(a)}, Inboxes(UserFiles, MaxFiles))
NextTwice == ParseArgs \/ Prepare \/ Evaluate \/ ApplyStep \/ WriteSummary \/ Rerun
SpecTwice == InitTwice /\ [][NextTwice]_vars

\* ------------------------------------------------------------------ claims
Decisions == {decisions[k] : k \in 1..Len(decisions)}
RealRunDone == pc = "done" /\ ~dry_run
Is2xx(status) == status >= 200 /\ status < 300
Blank(url) == \A k \in 1..Len(url) : url[k] = " "

\* C1: every decision the local evaluator has made and the policy gate has not
\* yet been asked about has the action demote exactly when its reasons list
\* is not empty, and promote otherwise; hold is never produced.
C1_LocalActionIffReasons ==
    \A k \in 1..Len(decisions) :
        k > Len(gate_sent) =>
            /\ decisions[k].action \in {"promote", "demote"}
            /\ (decisions[k].action = "demote") <=> (decisions[k].reasons # <<>>)
            /\ (decisions[k].action = "promote") <=> (decisions[k].reasons = <<>>)

\* a file whose only failure is a negative economics value has been evaluated
C1_Witness ==
    /\ Len(decisions) = 1
    /\ decisions[1].reasons = <<"econ_invalid_negative_values">>
    /\ decisions[1].action = "demote"

\* C2: when a real run has completed, every scanned file has left the inbox
\* and was moved exactly once, to the applied directory if its final action
\* is promote and to the demoted directory if it is demote.
C2_RealRunMovesEveryFile ==
    RealRunDone =>
        /\ Len(decisions) = Len(listing)
        /\ \A k \in 1..Len(decisions) :
            LET d == decisions[k]
            IN  /\ d.file = listing[k]
                /\ d.file \notin DOMAIN inbox
                /\ d.action \in {"promote", "demote"}
                /\ d.action = "promote" =>
                    /\ {m \in moves : m[1] = d.file} = {<<d.file, "applied">>}
                    /\ d.file \in DOMAIN applied
                    /\ d.file \notin DOMAIN demoted
                /\ d.action = "demote" =>
                    /\ {m \in moves : m[1] = d.file} = {<<d.file, "demoted">>}
                    /\ d.file \in DOMAIN demoted
                    /\ d.file \notin DOMAIN applied

\* a real run has completed with a file promoted by override despite reasons
C2_Witness ==
    /\ RealRunDone
    /\ \E d \in Decisions :
        d.reasons # <<>> /\ d.action = "promote" /\ d.file \in DOMAIN applied

\* the responses and failures of the wire that must stop a real run
FailingWire(w) ==
    \/ w.kind # "http"
    \/ ~Is2xx(w.status)
    \/ w.body.t \in {"garbage", "array"}
    \/ /\ w.body.allow \notin {"true", "false"}
       /\ w.body.action \notin {"promote", "demote"}

\* C3: when the consultation of the policy gate fails for a decision, the run
\* has stopped at that decision: every scanned file is still in the inbox,
\* nothing was moved, no incident and no summary was written, and requests
\* were sent for the decisions up to the failing one only.
C3_GateFailureAborts ==
    (last_gate.valid /\ FailingWire(last_gate.wire)) =>
        /\ pc = "exit"
        /\ \E e \in printed : e.error = "policy_gate_blocked_transition"
        /\ \A k \in 1..Len(listing) :
            listing[k] \in DOMAIN inbox /\ inbox[listing[k]] = SeedSamples(inbox0, clock)[listing[k]]
        /\ moves = {}
        /\ applied = Empty
        /\ demoted = Empty
        /\ incidents = {}
        /\ summary = None
        /\ Len(gate_sent) = i
        /\ i <= Len(decisions)
        /\ \A k \in 1..i : gate_sent[k] = decisions[k].file
        /\ last_gate.file = decisions[i].file

\* the gate answered {} for the second of at least three decisions
C3_Witness ==
    /\ pc = "exit"
    /\ last_gate.valid
    /\ last_gate.wire = Wire("http", 200, EmptyObject)
    /\ i = 2
    /\ Len(decisions) >= 3

\* C4: in a dry run no file leaves the inbox, no incident is written and no
\* request is sent to the policy gate; a dry run that completes lists every
\* decision, one per inbox file, in its summary.
C4_DryRunTouchesNothing ==
    DryRunOf(args) =>
        /\ moves = {}
        /\ applied = Empty
        /\ demoted = Empty
        /\ incidents = {}
        /\ gate_sent = <<>>
        /\ ~last_gate.valid
        /\ \A name \in DOMAIN inbox0 : name \in DOMAIN inbox /\ inbox[name] = inbox0[name]
        /\ pc = "exit" => decisions = <<>>
        /\ pc = "done" =>
            /\ ~IsNone(summary)
            /\ Val(summary).dry_run
            /\ Val(summary).decisions = decisions
            /\ Val(summary).counts.total = Cardinality(DOMAIN inbox)
            /\ {d.file : d \in Decisions} = DOMAIN inbox

\* a dry run has completed over two or more files, one of them flagged
C4_Witness ==
    /\ DryRunOf(args)
    /\ pc = "done"
    /\ Len(decisions) >= 2
    /\ \E d \in Decisions : d.reasons # <<>>

\* C5: for the response object of the last exchange and the local action it
\* was asked about: allow false resolves to demote whatever the action
\* member says; else an action member promote or demote resolves to itself;
\* else allow true resolves to the local action; else the resolution fails
\* with policy_gate_missing_allow_or_action.  The decision carries the
\* resolved action.
C5_GateResolutionRule ==
    (last_gate.valid /\ last_gate.out.ok) =>
        LET r == last_gate.out.result
            res == last_gate.resolved
            d == decisions[Len(gate_sent)]
        IN  /\ r.allow = "false" => res.ok /\ res.action = "demote"
            /\ (r.allow # "false" /\ r.action \in {"promote", "demote"}) =>
                    res.ok /\ res.action = r.action
            /\ (r.allow = "true" /\ r.action \notin {"promote", "demote"}) =>
                    res.ok /\ res.action = last_gate.requested
            /\ (r.allow \notin {"true", "false"} /\ r.action \notin {"promote", "demote"}) =>
                    ~res.ok /\ res.tag = "policy_gate_missing_allow_or_action"
            /\ res.ok => d.file = last_gate.file /\ d.action = res.action

\* the gate answered allow false with action promote to a requested promote
C5_Witness ==
    /\ last_gate.valid
    /\ last_gate.out.ok
    /\ last_gate.out.result = Body("object", "false", "promote")
    /\ last_gate.requested = "promote"
    /\ last_gate.resolved.action = "demote"

\* C6: with --real-run and no --confirm-real-run, or with both flags and an
\* empty or blank policy-gate URL, the run never gets past its start: no
\* sample is seeded, no directory created, no file read or moved, no
\* incident or summary written, no request sent, and it exits with the
\* structured error.  Files are moved only with both flags and a URL that
\* is not blank.
C6_ConfigErrorBeforeAnything ==
    /\ (args.real_run /\ (~args.confirm_real_run \/ Blank(args.policy_gate_url))) =>
        /\ pc \in {"start", "exit"}
        /\ inbox = inbox0
        /\ ~mkdirs
        /\ listing = <<>>
        /\ decisions = <<>>
        /\ moves = {}
        /\ applied = Empty
        /\ demoted = Empty
        /\ incidents = {}
        /\ summary = None
        /\ gate_sent = <<>>
        /\ pc = "exit" =>
            /\ exit_code # Some(0)
            /\ \E e \in printed :
                e.error = IF args.confirm_real_run
                          THEN "policy_gate_required_for_real_run"
                          ELSE "real_run_requires_confirm_flag"
    /\ (moves # {} \/ DOMAIN applied # {} \/ DOMAIN demoted # {}) =>
        args.real_run /\ args.confirm_real_run /\ ~Blank(args.policy_gate_url)

\* a confirmed real run with a blank URL, samples to seed and a file to move
\* has exited
C6_Witness ==
    /\ pc = "exit"
    /\ args.real_run
    /\ args.confirm_real_run
    /\ args.policy_gate_url = <<" ", " ">>
    /\ args.seed_samples
    /\ DOMAIN inbox # {}

\* C7: when a real run has completed, the incidents directory holds a record
\* for a decision exactly when its reasons list is not empty, whatever its
\* final action, and the record carries that final action and the reasons.
C7_IncidentIffReasons ==
    RealRunDone =>
        \A d \in Decisions :
            /\ (\E inc \in incidents : inc.stem = Stem(d.file)) <=> (d.reasons # <<>>)
            /\ \A inc \in incidents :
                inc.stem = Stem(d.file) =>
                    /\ inc.action = d.action
                    /\ inc.reasons = d.reasons
                    /\ inc.stamp = clock
                    /\ ~inc.dry_run

\* a real run has completed with a flagged file overridden to promote and a
\* clean file overridden to demote
C7_Witness ==
    /\ RealRunDone
    /\ \E d \in Decisions : d.reasons # <<>> /\ d.action = "promote"
    /\ \E d \in Decisions : d.reasons = <<>> /\ d.action = "demote"

ErrorOf(e) == \E p \in printed : p.error = e
ConfigErrors == {"real_run_requires_confirm_flag", "policy_gate_required_for_real_run"}

\* C8 as claimed: the exit code of each of the three failures differs from
\* the exit codes of the other two.
C8_ExitCodesPairwiseDistinct ==
    pc = "exit" =>
        /\ ErrorOf("real_run_requires_confirm_flag") =>
            exit_code \notin {Some(ExitNoUrlCode), Some(ExitGateCode)}
        /\ ErrorOf("policy_gate_required_for_real_run") =>
            exit_code \notin {Some(ExitConfirmCode), Some(ExitGateCode)}
        /\ ErrorOf("policy_gate_blocked_transition") =>
            exit_code \notin {Some(ExitConfirmCode), Some(ExitNoUrlCode)}

\* C8 as amended: the exit code of a policy-gate failure differs from the
\* exit codes of both configuration errors and from that of a completed run;
\* the two configuration errors exit with the same code and differ by the
\* error they print.
C8_GateExitCodeDistinct ==
    /\ pc = "exit" =>
        /\ ErrorOf("policy_gate_blocked_transition") =>
            exit_code \notin {Some(ExitConfirmCode), Some(ExitNoUrlCode), Some(0)}
        /\ (\E e \in ConfigErrors : ErrorOf(e)) =>
            /\ exit_code \notin {Some(ExitGateCode), Some(0)}
            /\ exit_code = Some(ExitConfirmCode)
            /\ exit_code = Some(ExitNoUrlCode)
            /\ ErrorOf("real_run_requires_confirm_flag") <=> ~args.confirm_real_run
    /\ pc = "done" => exit_code = Some(0)

\* a real run has exited on a policy-gate failure
C8_Witness ==
    /\ pc = "exit"
    /\ ErrorOf("policy_gate_blocked_transition")
    /\ exit_code = Some(3)

SlaVerdict(d) == d.age_hours > SlaHours
IsNotSla(reason) == reason # SlaReason
Rerun2Done == pc = "done" /\ run_no > 1 /\ ~IsNone(prev_summary)

\* C9 as claimed: the summary of a second dry run equals that of the first
\* in counts, economics and, file by file, action, reasons, warnings and KPI.
C9_DryRunSummariesEqual ==
    Rerun2Done =>
        LET a == Val(prev_summary)
            b == Val(summary)
        IN  /\ a.counts = b.counts
            /\ a.economics = b.economics
            /\ Len(a.decisions) = Len(b.decisions)
            /\ \A k \in 1..Len(a.decisions) :
                /\ a.decisions[k].file = b.decisions[k].file
                /\ a.decisions[k].action = b.decisions[k].action
                /\ a.decisions[k].reasons = b.decisions[k].reasons
                /\ a.decisions[k].warnings = b.decisions[k].warnings
                /\ a.decisions[k].kpi = b.decisions[k].kpi

\* C9 as amended: the two summaries agree on dry_run, the total and warn
\* counts, the economics, the margin warnings and, file by file, the
\* warnings, the KPI values and the reasons other than sla_exceeded; a file
\* whose age is on the same side of the SLA in both runs has the same action
\* and reasons, and when that is so for every file the counts are equal.
C9_DryRunSummariesEqualUpToSla ==
    Rerun2Done =>
        LET a == Val(prev_summary)
            b == Val(summary)
            n == Len(a.decisions)
        IN  /\ a.dry_run /\ b.dry_run
            /\ a.time_utc < b.time_utc
            /\ a.counts.total = b.counts.total
            /\ a.counts.warn = b.counts.warn
            /\ a.economics = b.economics
            /\ a.margin_warnings = b.margin_warnings
            /\ n = Len(b.decisions)
            /\ \A k \in 1..n :
                LET x == a.decisions[k]
                    y == b.decisions[k]
                IN  /\ x.file = y.file
                    /\ x.warnings = y.warnings
                    /\ x.kpi = y.kpi
                    /\ SelectSeq(x.reasons, IsNotSla) = SelectSeq(y.reasons, IsNotSla)
                    /\ SlaVerdict(x) = SlaVerdict(y) =>
                        x.action = y.action /\ x.reasons = y.reasons
            /\ (\A k \in 1..n : SlaVerdict(a.decisions[k]) = SlaVerdict(b.decisions[k])) =>
                a.counts = b.counts

\* a second dry run has completed over a file that passed the SLA in between
C9_Witness ==
    /\ Rerun2Done
    /\ \E k \in 1..Len(decisions) :
        /\ SlaVerdict(decisions[k])
        /\ ~SlaVerdict(Val(prev_summary).decisions[k])
        /\ decisions[k].action # Val(prev_summary).decisions[k].action

\* C10 as claimed: a refused connection, a status outside 200..299 and a body
\* that is not a JSON object are each reported with their own tag.
C10_GateErrorTagPerClass ==
    last_gate.valid =>
        LET w == last_gate.wire
            out == last_gate.out
        IN  /\ w.kind = "refused" => ~out.ok /\ out.tag = "policy_gate_unreachable"
            /\ (w.kind = "http" /\ ~Is2xx(w.status)) =>
                ~out.ok /\ out.tag = "policy_gate_http" /\ out.status = w.status
            /\ (w.kind = "http" /\ Is2xx(w.status) /\ w.body.t \in {"garbage", "array"}) =>
                ~out.ok /\ out.tag = "policy_gate_invalid_json"

====
